---- MODULE Spec2Model ----
(***************************************************************************)
(* Model of the Blender title scripts lens_flare.py, neon_curves.py and    *)
(* spacemovie_intro.py (OpenShot animated-title templates).                *)
(*                                                                         *)
(* Conventions.  Python floats are kept as integers in hundredths          *)
(* (1.0 is 100, 0.57 is 57, 4.13 is 413); Python ints, frame numbers and   *)
(* strings are kept as they are.  A Python list is a sequence, so Python's *)
(* color[0] is color[1] here.  A Python dict is a function whose DOMAIN is *)
(* its key set.                                                            *)
(***************************************************************************)
EXTENDS Integers, Sequences, FiniteSets, TLC

VARIABLES
    color,      \* argument handed to ensure_rgba or _safe_rgba
    rgba,       \* value returned by ensure_rgba(color) or _safe_rgba(color)
    rgba2,      \* value returned by ensure_rgba(rgba)
    cpc,        \* position of the color helper run
    bpy,        \* the host project (bpy.data and bpy.context.scene)
    keyframes,  \* argument handed to update_color_fcurves or keyframe_color_socket
    ret,        \* outcome of that call
    call,       \* arguments handed to keyframe_principled
    mat,        \* outcome of the keyframe_principled call
    script,     \* the script the host runs
    params_json,\* the text between the INJECTING PARAMS markers
    params,     \* the script's params dictionary
    pc,         \* the block of the script that runs next
    err,        \* the exception that ended the script, "" when none
    runs,       \* how many times the host has started the script
    once        \* the host project as the first run of the script left it

colorVars == <<color, rgba, rgba2, cpc>>
fcurveVars == <<keyframes, ret>>
principledVars == <<call, mat>>
scriptVars == <<script, params_json, params, pc, err, runs, once>>
vars == <<color, rgba, rgba2, cpc, bpy, keyframes, ret, call, mat,
          script, params_json, params, pc, err, runs, once>>

(***************************************************************************)
(* Bounds of the model.                                                    *)
(***************************************************************************)
MaxColorLen == 5
MaxNodes == 6       \* layers + strips + channel bags of one action
MaxKeyframes == 2   \* (frame, color) pairs handed to update_color_fcurves
MaxEdits == 2       \* differences between a run's inputs and the shipped template

\* Component values a color is drawn from (0.0, 0.5, 1.0).
Components == {0, 50, 100}

\* All sequences over S of length at most n.
SeqUpTo(S, n) == UNION {[1..k -> S] : k \in 0..n}

(***************************************************************************)
(* ensure_rgba                                                             *)
(***************************************************************************)
\* The alpha value ensure_rgba appends: 1.0.
OPAQUE == 100

\* color[0], color[1], color[2] raise IndexError on a sequence shorter than 3.
ensure_rgba_raises(c) == Len(c) < 4 /\ Len(c) < 3

\* Mutant: the alpha is forced to 1.0 on every input, 4-component ones too.
ensure_rgba_forced(c) == <<c[1], c[2], c[3], OPAQUE>>

\* Mutant: the appended alpha is 0.0.
ensure_rgba_transparent(c) ==
    IF Len(c) >= 4 THEN c ELSE <<c[1], c[2], c[3], 0>>

ensure_rgba(c) ==
    IF Len(c) >= 4 THEN c ELSE <<c[1], c[2], c[3], OPAQUE>>

\* The variables a specification does not use rest at these values.
IdleColor == color = <<>> /\ rgba = <<>> /\ rgba2 = <<>> /\ cpc = "idle"
IdleFcurves == keyframes = <<>> /\ ret = "idle"
IdlePrincipled == call = <<>> /\ mat = "idle"
IdleScript ==
    /\ script = "none" /\ params_json = <<>> /\ params = <<>> /\ pc = "idle" /\ err = ""
    /\ runs = 0 /\ once = <<>>

InitColor ==
    /\ IdleFcurves /\ IdlePrincipled /\ IdleScript
    /\ bpy = <<>>
    /\ color \in SeqUpTo(Components, MaxColorLen)
    /\ rgba = <<>>
    /\ rgba2 = <<>>
    /\ cpc = "input"

\* rgba = ensure_rgba(color)
EnsureRgba ==
    /\ cpc = "input"
    /\ IF ensure_rgba_raises(color)
       THEN /\ cpc' = "IndexError"
            /\ UNCHANGED rgba
       ELSE /\ rgba' = ensure_rgba(color)
            /\ cpc' = "once"
    /\ UNCHANGED <<color, rgba2, bpy, fcurveVars, principledVars, scriptVars>>

\* rgba2 = ensure_rgba(rgba): the helper applied to its own result.
EnsureRgbaAgain ==
    /\ cpc = "once"
    /\ ~ensure_rgba_raises(rgba)
    /\ rgba2' = ensure_rgba(rgba)
    /\ cpc' = "twice"
    /\ UNCHANGED <<color, rgba, bpy, fcurveVars, principledVars, scriptVars>>

NextColor == EnsureRgba \/ EnsureRgbaAgain

SpecColor == InitColor /\ [][NextColor]_vars

(***************************************************************************)
(* Actions and F-curves (bpy.data.actions).                                *)
(*                                                                         *)
(* An action is a record: has_fcurves_attr says whether the object has an  *)
(* attribute "fcurves" (the layout before layered actions), fcurves is     *)
(* that collection, and layers is the layered layout: a sequence of layers,*)
(* each a sequence of strips, each a sequence of channel bags.  A channel  *)
(* bag is [has_fcurves, fcurves]; has_fcurves = FALSE is a bag whose       *)
(* fcurves is None.  A curve is [array_index, keyframe_points] and a       *)
(* keyframe point [co, handle_left, handle_right], each an <<x, y>> pair.  *)
(***************************************************************************)
KeyframePoint == [co |-> <<0, 0>>, handle_left |-> <<-1, 0>>, handle_right |-> <<1, 0>>]

FCurve(i, npoints) ==
    [array_index |-> i, keyframe_points |-> [p \in 1..npoints |-> KeyframePoint]]

\* A collection with curves for array_index 0 (two points), 1 (one point)
\* and 3 (two points), and none for array_index 2.
MixedCurves == <<FCurve(0, 2), FCurve(1, 1), FCurve(3, 2)>>

\* X, Y and Z curves with two keyframe points each.
XYZCurves == <<FCurve(0, 2), FCurve(1, 2), FCurve(2, 2)>>

NoneBag == [has_fcurves |-> FALSE, fcurves |-> <<>>]
EmptyBag == [has_fcurves |-> TRUE, fcurves |-> <<>>]
CurvesBag == [has_fcurves |-> TRUE, fcurves |-> MixedCurves]

\* A layered layout is written as a sequence of tokens read left to right:
\* "layer" opens a layer, "strip" opens a strip in the open layer, and the
\* other tokens put a channel bag into the open strip.
Tokens == {"layer", "strip", "none", "empty", "curves"}

BagOf(tok) ==
    CASE tok = "none" -> NoneBag
      [] tok = "empty" -> EmptyBag
      [] tok = "curves" -> CurvesBag

WellFormed(toks) ==
    \A k \in 1..Len(toks) :
        /\ toks[k] = "strip" => k > 1
        /\ toks[k] \notin {"layer", "strip"} =>
              \E j \in 1..(k - 1) :
                  /\ toks[j] = "strip"
                  /\ \A m \in (j + 1)..(k - 1) : toks[m] # "layer"
        /\ k = 1 => toks[k] = "layer"

AddToken(layers, tok) ==
    LET nl == Len(layers) IN
    CASE tok = "layer" -> Append(layers, <<>>)
      [] tok = "strip" -> [layers EXCEPT ![nl] = Append(@, <<>>)]
      [] OTHER -> [layers EXCEPT ![nl][Len(layers[nl])] = Append(@, BagOf(tok))]

RECURSIVE LayersOf(_, _)
LayersOf(toks, acc) ==
    IF toks = <<>> THEN acc ELSE LayersOf(Tail(toks), AddToken(acc, Head(toks)))

Layouts ==
    {LayersOf(toks, <<>>) : toks \in {t \in SeqUpTo(Tokens, MaxNodes) : WellFormed(t)}}

\* for bag in getattr(strip, "channelbags", []): the first bag from b on whose
\* fcurves is not None, 0 when there is none.
RECURSIVE FirstInBags(_, _)
FirstInBags(bags, b) ==
    IF b > Len(bags) THEN 0
    ELSE IF bags[b].has_fcurves THEN b
    ELSE FirstInBags(bags, b + 1)

\* for strip in getattr(layer, "strips", []): <<s, b>> of the first hit.
RECURSIVE FirstInStrips(_, _)
FirstInStrips(strips, s) ==
    IF s > Len(strips) THEN <<>>
    ELSE LET b == FirstInBags(strips[s], 1) IN
         IF b # 0 THEN <<s, b>> ELSE FirstInStrips(strips, s + 1)

\* for layer in getattr(action, "layers", []): <<l, s, b>> of the first hit.
RECURSIVE FirstInLayers(_, _)
FirstInLayers(layers, l) ==
    IF l > Len(layers) THEN <<>>
    ELSE LET sb == FirstInStrips(layers[l], 1) IN
         IF sb # <<>> THEN <<l>> \o sb ELSE FirstInLayers(layers, l + 1)

\* Mutant: a failed lookup yields an empty collection instead of raising.
get_action_fcurves_lenient(action) ==
    IF action.has_fcurves_attr
    THEN [raised |-> FALSE, where |-> <<>>]
    ELSE LET hit == FirstInLayers(action.layers, 1) IN
         IF hit # <<>> THEN [raised |-> FALSE, where |-> hit]
         ELSE [raised |-> FALSE, where |-> <<>>]

\* Mutant: the layers are traversed first, the "fcurves" attribute last.
get_action_fcurves_layers_first(action) ==
    LET hit == FirstInLayers(action.layers, 1) IN
    IF hit # <<>> THEN [raised |-> FALSE, where |-> hit]
    ELSE IF action.has_fcurves_attr THEN [raised |-> FALSE, where |-> <<>>]
    ELSE [raised |-> TRUE, where |-> <<>>]

\* The collection is returned by reference; "where" says which one it is:
\* <<>> is action.fcurves and <<l, s, b>> the fcurves of that channel bag.
\* raised is the AttributeError of the last line.
get_action_fcurves(action) ==
    IF action.has_fcurves_attr
    THEN [raised |-> FALSE, where |-> <<>>]
    ELSE LET hit == FirstInLayers(action.layers, 1) IN
         IF hit # <<>> THEN [raised |-> FALSE, where |-> hit]
         ELSE [raised |-> TRUE, where |-> <<>>]

CurvesAt(action, where) ==
    IF where = <<>> THEN action.fcurves
    ELSE action.layers[where[1]][where[2]][where[3]].fcurves

SetCurvesAt(action, where, curves) ==
    IF where = <<>> THEN [action EXCEPT !.fcurves = curves]
    ELSE [action EXCEPT !.layers[where[1]][where[2]][where[3]].fcurves = curves]

\* by_index = {fc.array_index: fc for fc in fcurves}, then by_index.get(i):
\* the position of the last curve with array_index i, 0 when there is none.
by_index(fcurves, i) ==
    LET hits == {c \in 1..Len(fcurves) : fcurves[c].array_index = i} IN
    IF hits = {} THEN 0 ELSE CHOOSE c \in hits : \A x \in hits : x <= c

\* Mutant: the right handle is left where it was.
SetKeyframePoint_left_only(fcurves, c, p, frame, value) ==
    [fcurves EXCEPT ![c].keyframe_points[p] =
        [co |-> <<frame, value>>,
         handle_left |-> <<@.handle_left[1], value>>,
         handle_right |-> @.handle_right]]

\* keyframe_point.co = (frame, value); handle_left.y = value;
\* handle_right.y = value, on point p of curve c.
SetKeyframePoint(fcurves, c, p, frame, value) ==
    [fcurves EXCEPT ![c].keyframe_points[p] =
        [co |-> <<frame, value>>,
         handle_left |-> <<@.handle_left[1], value>>,
         handle_right |-> <<@.handle_right[1], value>>]]

\* The two loops of update_color_fcurves from point p (counted from 1) and
\* array index i on.
RECURSIVE UpdateLoop(_, _, _, _)
UpdateLoop(fcurves, kfs, p, i) ==
    IF p > Len(kfs) THEN fcurves
    ELSE IF i > 2 THEN UpdateLoop(fcurves, kfs, p + 1, 0)
    ELSE LET c == by_index(fcurves, i) IN
         IF c = 0 \/ p > Len(fcurves[c].keyframe_points)
         THEN UpdateLoop(fcurves, kfs, p, i + 1)
         ELSE UpdateLoop(
                  SetKeyframePoint(fcurves, c, p, kfs[p][1], kfs[p][2][i + 1]),
                  kfs, p, i + 1)

\* Mutant: a missing action is reported as found.
update_color_fcurves_found(actions, action_name, kfs) ==
    IF action_name \notin DOMAIN actions
    THEN [outcome |-> "action", actions |-> actions]
    ELSE [outcome |-> "action",
          actions |-> [actions EXCEPT ![action_name] =
              SetCurvesAt(@, get_action_fcurves(@).where,
                  UpdateLoop(CurvesAt(@, get_action_fcurves(@).where), kfs, 1, 0))]]

\* update_color_fcurves(action_name, keyframes): the outcome ("None", the
\* "action", or "AttributeError") and the host's actions afterwards.
update_color_fcurves(actions, action_name, kfs) ==
    IF action_name \notin DOMAIN actions
    THEN [outcome |-> "None", actions |-> actions]
    ELSE LET action == actions[action_name]
             found == get_action_fcurves(action)
         IN  IF found.raised
             THEN [outcome |-> "AttributeError", actions |-> actions]
             ELSE [outcome |-> "action",
                   actions |-> [actions EXCEPT ![action_name] =
                       SetCurvesAt(action, found.where,
                           UpdateLoop(CurvesAt(action, found.where), kfs, 1, 0))]]

\* The actions a host project may hold under the name "SphereAction".
HostActions ==
    {[has_fcurves_attr |-> FALSE, fcurves |-> <<>>, layers |-> ls] : ls \in Layouts}
    \cup {[has_fcurves_attr |-> TRUE, fcurves |-> fcs, layers |-> ls] :
             fcs \in {<<>>, MixedCurves}, ls \in Layouts}

\* The p-th (frame, color) pair handed to update_color_fcurves.
KeyframePair(p) == <<10 * p, <<10 + p, 20 + p, 30 + p>>>>

InitFcurves ==
    /\ IdleColor /\ IdlePrincipled /\ IdleScript
    /\ \E acts \in {<<>>} \cup {[n \in {"SphereAction"} |-> a] : a \in HostActions} :
           bpy = [actions |-> acts]
    /\ \E n \in 0..MaxKeyframes : keyframes = [p \in 1..n |-> KeyframePair(p)]
    /\ ret = "pending"

UpdateColorFcurves ==
    /\ ret = "pending"
    /\ LET r == update_color_fcurves(bpy.actions, "SphereAction", keyframes) IN
           /\ ret' = r.outcome
           /\ bpy' = [bpy EXCEPT !.actions = r.actions]
    /\ UNCHANGED <<colorVars, keyframes, principledVars, scriptVars>>

NextFcurves == UpdateColorFcurves

SpecFcurves == InitFcurves /\ [][NextFcurves]_vars

(***************************************************************************)
(* The parameter dictionaries.  Long texts are cut to their first words.   *)
(***************************************************************************)
\* params of lens_flare.py as the script text sets it.
params_lens_flare ==
    [title |-> "Oh Yeah! OpenShot!", extrude |-> 10, bevel_depth |-> 2,
     spacemode |-> "CENTER", text_size |-> 150, width |-> 100,
     fontname |-> "Bfont", color |-> <<80, 80, 80>>, alpha |-> 100,
     output_path |-> "/tmp/", fps |-> 24, quality |-> 90,
     file_format |-> "PNG", color_mode |-> "RGBA",
     horizon_color |-> <<57, 57, 57>>, resolution_x |-> 1920,
     resolution_y |-> 1080, resolution_percentage |-> 100,
     start_frame |-> 20, end_frame |-> 25, animation |-> TRUE]

\* The JSON object injected into lens_flare.py.
params_json_lens_flare ==
    [file_name |-> "TitleFileName",
     Alongtimeago |-> "A long time ago in a video",
     TitleSpaceMovie |-> "open shot", Episode |-> "Episode XXIII",
     EpisodeTitle |-> "A NEW OPENSHOT", MainText |-> "Es una epoca de dominio",
     start_frame |-> 1, end_frame |-> 250, length_multiplier |-> 100,
     start_x |-> 380, start_y |-> 413, start_z |-> 265,
     end_x |-> -460, end_y |-> 413, end_z |-> 321, alpha |-> 100,
     diffuse_color |-> <<100, 100, 100, 100>>, strength |-> 75,
     glare1_type |-> "Ghosts", glare1_streaks |-> 400, glare1_color |-> 25,
     glare1_angle |-> 0, glare2_type |-> "Streaks", glare2_streaks |-> 400,
     glare2_color |-> 25, glare2_angle |-> 0, fps |-> 30,
     resolution_x |-> 1280, resolution_y |-> 720,
     resolution_percentage |-> 50, quality |-> 100, file_format |-> "PNG",
     color_mode |-> "RGBA", alpha_mode |-> 1,
     horizon_color |-> <<57, 57, 57>>, animation |-> TRUE,
     output_path |-> "C:/Users/Usuario/.openshot_qt/blender/8U82XISHFD/TitleFileName"]

\* params of neon_curves.py as the script text sets it.
params_neon_curves ==
    [title |-> "Oh Yeah! OpenShot!", extrude |-> 10, bevel_depth |-> 2,
     spacemode |-> "CENTER", text_size |-> 150, width |-> 100,
     fontname |-> "Bfont", color |-> <<80, 80, 80>>, alpha |-> 100,
     line1_diffuse_color |-> <<80, 80, 80, 100>>,
     line2_diffuse_color |-> <<80, 80, 80, 100>>,
     line3_diffuse_color |-> <<80, 80, 80, 100>>,
     line4_diffuse_color |-> <<80, 80, 80, 100>>,
     output_path |-> "/tmp/", fps |-> 24, quality |-> 90,
     file_format |-> "PNG", color_mode |-> "RGBA",
     horizon_color |-> <<57, 57, 57>>, resolution_x |-> 1920,
     resolution_y |-> 1080, resolution_percentage |-> 100,
     start_frame |-> 20, end_frame |-> 25, animation |-> TRUE]

\* The JSON object injected into neon_curves.py.
params_json_neon_curves ==
    [file_name |-> "TitleFileName", title |-> "Titulo", extrude |-> 10,
     bevel_depth |-> 2, fontname |-> "Bfont", spacemode |-> "CENTER",
     text_size |-> 100, width |-> 100,
     diffuse_color |-> <<100, 67, 0, 100>>, strength |-> 100,
     glare_type |-> "GHOSTS",
     line1_diffuse_color |-> <<40, 74, 100, 100>>,
     line2_diffuse_color |-> <<0, 41, 100, 100>>,
     line3_diffuse_color |-> <<51, 73, 100, 100>>,
     line4_diffuse_color |-> <<100, 87, 0, 100>>,
     start_frame |-> 1, end_frame |-> 250, length_multiplier |-> 100,
     fps |-> 30, resolution_x |-> 1280, resolution_y |-> 720,
     resolution_percentage |-> 50, quality |-> 100, file_format |-> "PNG",
     color_mode |-> "RGBA", alpha_mode |-> 1,
     horizon_color |-> <<57, 57, 57>>, animation |-> TRUE,
     output_path |-> "C:/Users/Usuario/.openshot_qt/blender/DECX98XA0E/TitleFileName"]

\* params of spacemovie_intro.py as the script text sets it.
params_spacemovie_intro ==
    [title |-> "Oh Yeah! OpenShot!",
     Alongtimeago |-> "Some cycles ago, in The Grid",
     Episode |-> "Episode I.V", EpisodeTitle |-> "A NEW OPENSHOT",
     TitleSpaceMovie |-> "Space Movie",
     MainText |-> "It is a period of software war.",
     extrude |-> 10, bevel_depth |-> 2, spacemode |-> "CENTER",
     text_size |-> 150, width |-> 100, fontname |-> "Bfont",
     color |-> <<80, 80, 80>>, alpha |-> 100, output_path |-> "/tmp/",
     fps |-> 24, quality |-> 90, file_format |-> "PNG",
     color_mode |-> "RGBA", horizon_color |-> <<0, 0, 0>>,
     resolution_x |-> 1920, resolution_y |-> 1080,
     resolution_percentage |-> 100, start_frame |-> 1, end_frame |-> 2232,
     animation |-> TRUE]

\* The JSON object injected into spacemovie_intro.py.
params_json_spacemovie_intro ==
    [file_name |-> "TitleFileName",
     Alongtimeago |-> "A long time ago in a video",
     TitleSpaceMovie |-> "open shot", Episode |-> "Episode IV",
     EpisodeTitle |-> "A NEW OPENSHOT",
     MainText |-> "It is a period of software war.",
     start_frame |-> 1, end_frame |-> 2232, length_multiplier |-> 100,
     fps |-> 30, resolution_x |-> 1280, resolution_y |-> 720,
     resolution_percentage |-> 50, quality |-> 100, file_format |-> "PNG",
     color_mode |-> "RGBA", alpha_mode |-> 1,
     horizon_color |-> <<57, 57, 57>>, animation |-> TRUE,
     output_path |-> "C:/Users/Usuario/.openshot_qt/blender/SGL9M91DQA/TitleFileName"]

Scripts == {"lens_flare", "neon_curves", "spacemovie_intro"}

Defaults(s) ==
    CASE s = "lens_flare" -> params_lens_flare
      [] s = "neon_curves" -> params_neon_curves
      [] s = "spacemovie_intro" -> params_spacemovie_intro

InjectedJson(s) ==
    CASE s = "lens_flare" -> params_json_lens_flare
      [] s = "neon_curves" -> params_json_neon_curves
      [] s = "spacemovie_intro" -> params_json_spacemovie_intro

\* Mutant: the injected object replaces the dictionary instead of updating it.
dict_update_replacing(d, other) == other

\* Mutant: keys the dictionary already holds keep their value.
dict_update_keeping(d, other) ==
    [k \in DOMAIN d \cup DOMAIN other |-> IF k \in DOMAIN d THEN d[k] ELSE other[k]]

\* d.update(other)
dict_update(d, other) ==
    [k \in DOMAIN d \cup DOMAIN other |-> IF k \in DOMAIN other THEN other[k] ELSE d[k]]

\* The dictionary without the keys in ks.
Without(d, ks) == [k \in DOMAIN d \ ks |-> d[k]]

\* The dictionary with the entries of e put in.
With(d, e) == [k \in DOMAIN d \cup DOMAIN e |-> IF k \in DOMAIN e THEN e[k] ELSE d[k]]

\* Mutant: round() as truncation.
RoundDown(h) == h \div 100

\* Mutant: round() rounding a tie upwards.
RoundHalfUp(h) == (h + 50) \div 100

\* Python's round() of a float given in hundredths: to the nearest integer,
\* a tie to the even one.
Round(h) ==
    LET q == h \div 100
        r == h % 100
    IN  IF r < 50 THEN q
        ELSE IF r > 50 THEN q + 1
        ELSE IF q % 2 = 0 THEN q ELSE q + 1

(***************************************************************************)
(* The host project.  Nodes and sockets are kept in the order of the       *)
(* host's collections: nodes.get(name) and inputs.get(name) find the first *)
(* entry of that name, nodes[k] and inputs[k] the entry at position k + 1. *)
(***************************************************************************)
Socket(name) == [name |-> name, default_value |-> 0]

Node(name, ninputs, alpha_at) ==
    [name |-> name, glare_type |-> "STREAKS",
     inputs |-> [k \in 1..ninputs |-> Socket(IF k = alpha_at THEN "Alpha" ELSE "Input")]]

\* Position of the first entry called name, 0 when there is none.
IndexOfName(entries, name) ==
    LET hits == {k \in 1..Len(entries) : entries[k].name = name} IN
    IF hits = {} THEN 0 ELSE CHOOSE k \in hits : \A x \in hits : k <= x

NoTree == [present |-> FALSE, nodes |-> <<>>]
Tree(nodes) == [present |-> TRUE, nodes |-> nodes]
Material(tree) == [diffuse_color |-> <<80, 80, 80, 100>>, node_tree |-> tree]

\* A project holding nothing but the render settings of a new scene.
EmptyHost ==
    [objects |-> <<>>, actions |-> <<>>, curves |-> <<>>, fonts |-> {},
     font_files |-> <<>>, materials |-> <<>>, node_groups |-> <<>>,
     scene_nodes |-> <<>>, worlds |-> <<>>,
     render |-> [filepath |-> "//", fps |-> 24, fps_base |-> 100,
                 file_format |-> "FFMPEG", color_mode |-> "RGB",
                 film_transparent |-> 0, resolution_x |-> 640,
                 resolution_y |-> 480, resolution_percentage |-> 25,
                 frame_map_old |-> 100, frame_map_new |-> 100],
     scene |-> [frame_start |-> 0, frame_end |-> 1]]

Named(name, value) == [n \in {name} |-> value]

LegacyAction(fcurves) ==
    [has_fcurves_attr |-> TRUE, fcurves |-> fcurves, layers |-> <<>>]
LayeredAction(bags) ==
    [has_fcurves_attr |-> FALSE, fcurves |-> <<>>, layers |-> << << bags >> >>]

\* What the lens flare project may hold as "SphereAction", as "Material.001"
\* and as its compositor nodes.  The first of each is the shipped template.
SphereActions ==
    << Named("SphereAction", LegacyAction(XYZCurves)),
       <<>>,
       Named("SphereAction", LegacyAction(MixedCurves)),
       Named("SphereAction", LayeredAction(<<NoneBag, [has_fcurves |-> TRUE, fcurves |-> XYZCurves]>>)),
       Named("SphereAction", LayeredAction(<<NoneBag>>)),
       Named("SphereAction", [has_fcurves_attr |-> FALSE, fcurves |-> <<>>, layers |-> <<>>]) >>

LensMaterials ==
    << Named("Material.001", Material(Tree(<<Node("Material Output", 1, 0), Node("Principled BSDF", 28, 5)>>))),
       <<>>,
       Named("Material.001", Material(NoTree)),
       Named("Material.001", Material(Tree(<<Node("Material Output", 1, 0)>>))),
       Named("Material.001", Material(Tree(<<Node("Principled BSDF", 27, 0)>>))) >>

LensCompositors ==
    << Named("Compositing Nodetree", [nodes |-> <<Node("Glare", 13, 0), Node("Glare.001", 13, 0)>>]),
       <<>>,
       Named("Compositing Nodetree", [nodes |-> <<Node("Glare", 13, 0)>>]),
       Named("Compositing Nodetree", [nodes |-> <<Node("Glare.001", 13, 0)>>]) >>

LensObjects ==
    << Named("Sphere", [location |-> <<0, 0, 0>>]), <<>> >>

\* What the neon curves project may hold.
TextCurve ==
    [extrude |-> 0, bevel_depth |-> 0, body |-> "Text", align_x |-> "LEFT",
     size |-> 0, space_character |-> 0, font |-> "Bfont"]

NeonCurves == << Named("Text.001", TextCurve), <<>> >>

NeonMaterialNames ==
    {"Material.title", "Material.line1", "Material.line2", "Material.line3", "Material.line4"}

EmissionMaterial == Material(Tree(<<Node("Material Output", 1, 0), Node("Emission", 2, 0)>>))

NeonMaterials ==
    << [n \in NeonMaterialNames |-> EmissionMaterial],
       [n \in NeonMaterialNames \ {"Material.title"} |-> EmissionMaterial],
       [n \in NeonMaterialNames \ {"Material.line3"} |-> EmissionMaterial],
       [n \in NeonMaterialNames |->
           IF n = "Material.title" THEN Material(NoTree) ELSE EmissionMaterial] >>

NeonSceneNodes ==
    << <<Node("Render Layers", 0, 0), Node("Glare", 1, 0)>>,
       <<Node("Render Layers", 0, 0)>> >>

\* Font files bpy.ops.font.open can read, with the font each one adds.
NeonFontFiles == << Named("/fonts/custom.ttf", "Custom Regular"), <<>> >>

CustomFont == "/fonts/custom.ttf"

\* What the space movie project may hold.
SpaceTextNames == {"Alongtimeago", "Episode", "EpisodeTitle", "TitleSpaceMovie", "MainText"}

SpaceObjects ==
    << [n \in SpaceTextNames |-> [data |-> [body |-> "Text"]]],
       [n \in SpaceTextNames \ {"EpisodeTitle"} |-> [data |-> [body |-> "Text"]]] >>

SpaceWorlds == << <<[color |-> <<5, 5, 5>>]>>, <<>> >>

\* The number of choices that differ from the first of each sequence.
Cost(choice) == IF choice = 1 THEN 0 ELSE 1

\* The hosts a script may run in: at most `budget` of the project's parts
\* differ from the shipped template.
Hosts(s, budget) ==
    CASE s = "lens_flare" ->
           {[EmptyHost EXCEPT !.objects = LensObjects[o], !.actions = SphereActions[a],
                              !.materials = LensMaterials[m], !.node_groups = LensCompositors[c]] :
              <<o, a, m, c>> \in
                {x \in (DOMAIN LensObjects) \X (DOMAIN SphereActions) \X
                       (DOMAIN LensMaterials) \X (DOMAIN LensCompositors) :
                   Cost(x[1]) + Cost(x[2]) + Cost(x[3]) + Cost(x[4]) <= budget}}
      [] s = "neon_curves" ->
           {[EmptyHost EXCEPT !.curves = NeonCurves[t], !.materials = NeonMaterials[m],
                              !.scene_nodes = NeonSceneNodes[g], !.fonts = {"Bfont"},
                              !.font_files = NeonFontFiles[f]] :
              <<t, m, g, f>> \in
                {x \in (DOMAIN NeonCurves) \X (DOMAIN NeonMaterials) \X
                       (DOMAIN NeonSceneNodes) \X (DOMAIN NeonFontFiles) :
                   Cost(x[1]) + Cost(x[2]) + Cost(x[3]) + Cost(x[4]) <= budget}}
      [] s = "spacemovie_intro" ->
           {[EmptyHost EXCEPT !.objects = SpaceObjects[o], !.worlds = SpaceWorlds[w]] :
              <<o, w>> \in
                {x \in (DOMAIN SpaceObjects) \X (DOMAIN SpaceWorlds) :
                   Cost(x[1]) + Cost(x[2]) <= budget}}

(***************************************************************************)
(* The injected parameters: the shipped JSON object with keys left out,    *)
(* the key fps_base added, or another length_multiplier or fontname.       *)
(***************************************************************************)
RECURSIVE SubsetsUpTo(_, _)
SubsetsUpTo(S, n) ==
    IF n = 0 THEN {{}}
    ELSE LET smaller == SubsetsUpTo(S, n - 1) IN
         smaller \cup {T \cup {x} : T \in smaller, x \in S}

\* length_multiplier values: 1.0, 1.5 and 2.5.
Multipliers == {100, 150, 250}

\* The shipped object with another length_multiplier (mult, 0 to keep it),
\* with the key fps_base (base) and with another fontname (font).
Replaced(s, mult, base, font) ==
    With(With(IF mult = 0 THEN <<>> ELSE Named("length_multiplier", mult),
              IF base THEN Named("fps_base", 125) ELSE <<>>),
         IF font THEN Named("fontname", CustomFont) ELSE <<>>)

Replacements(s, budget) ==
    {Replaced(s, x[1], x[2], x[3]) :
        x \in {y \in ({0} \cup (Multipliers \ {100})) \X BOOLEAN \X
                     (IF s = "neon_curves" THEN BOOLEAN ELSE {FALSE}) :
                 (IF y[1] = 0 THEN 0 ELSE 1) + (IF y[2] THEN 1 ELSE 0)
                   + (IF y[3] THEN 1 ELSE 0) <= budget}}

\* The objects within `budget` edits of the shipped JSON of script s.
InjectedObjects(s, budget) ==
    UNION {
      {With(Without(InjectedJson(s), omitted), repl) :
          omitted \in SubsetsUpTo(DOMAIN InjectedJson(s) \ DOMAIN repl,
                                  budget - Cardinality(DOMAIN repl))}
      : repl \in Replacements(s, budget) }

\* The text between the markers: a JSON object, text that is no JSON, or
\* nothing at all (params_json is then an undefined name).
InjectedTexts(s, budget) ==
    {[state |-> "injected", obj |-> o] : o \in InjectedObjects(s, budget)}
    \cup (IF budget >= 1
          THEN {[state |-> "malformed", obj |-> <<>>], [state |-> "undefined", obj |-> <<>>]}
          ELSE {})

InitScript ==
    /\ IdleColor /\ IdleFcurves /\ IdlePrincipled
    /\ script \in Scripts
    /\ \E host_edits \in 0..MaxEdits :
          /\ bpy \in Hosts(script, host_edits)
          /\ params_json \in InjectedTexts(script, MaxEdits - host_edits)
    /\ params = Defaults(script)
    /\ pc = "merge"
    /\ err = ""
    /\ runs = 1
    /\ once = <<>>

(***************************************************************************)
(* Statements.  A block of a script is a chain of statements over a run    *)
(* [bpy, err]: a statement reads its keys of params (KeyError when one is  *)
(* missing), then looks up its target in the host (host_err when that      *)
(* fails), then writes.  After an exception nothing more is executed and   *)
(* the writes made before it stay.  "KeyError(params)" is the KeyError of   *)
(* params[key] and "KeyError(bpy)" that of a lookup in a host collection.  *)
(***************************************************************************)
Run(h) == [bpy |-> h, err |-> ""]

Stmt(r, p, keys, host_err, written) ==
    IF r.err # "" THEN r
    ELSE IF ~(keys \subseteq DOMAIN p) THEN [r EXCEPT !.err = "KeyError(params)"]
    ELSE IF host_err # "" THEN [r EXCEPT !.err = host_err]
    ELSE Run(written)

\* Mutant: a block that raises leaves the host as it was before the block.
Finish_rolled_back(r, next) ==
    /\ bpy' = IF r.err = "" THEN r.bpy ELSE bpy
    /\ err' = r.err
    /\ pc' = IF r.err = "" THEN next ELSE pc

\* The script moves on to block `next`, or stops in this block with r.err.
Finish(r, next) ==
    /\ bpy' = r.bpy
    /\ err' = r.err
    /\ pc' = IF r.err = "" THEN next ELSE pc

Running(s, block) == script = s /\ pc = block /\ err = ""

\* try: injected_params = json.loads(params_json); params.update(...)
\* except NameError: pass
ProcessParameters ==
    /\ script \in Scripts /\ pc = "merge" /\ err = ""
    /\ CASE params_json.state = "injected" ->
              /\ params' = dict_update(params, params_json.obj)
              /\ err' = ""
              /\ pc' = "scene"
         [] params_json.state = "undefined" ->
              /\ params' = params
              /\ err' = ""
              /\ pc' = "scene"
         [] params_json.state = "malformed" ->
              /\ params' = params
              /\ err' = "JSONDecodeError"
              /\ pc' = pc
    /\ UNCHANGED <<colorVars, fcurveVars, principledVars, bpy, script, params_json, runs, once>>

(***************************************************************************)
(* Render options and animation speed, the last two blocks of each script. *)
(***************************************************************************)
\* Mutant: fps_base is never written.
fps_base_skipped(r, p) == r

\* if "fps_base" in params: bpy.context.scene.render.fps_base = params["fps_base"]
fps_base_option(r, p) ==
    IF "fps_base" \in DOMAIN p
    THEN Stmt(r, p, {"fps_base"}, "", [r.bpy EXCEPT !.render.fps_base = p["fps_base"]])
    ELSE r

\* filepath, fps and fps_base, image settings and film_transparent.
render_options_head(h, p) ==
    LET r1 == Stmt(Run(h), p, {"output_path"}, "",
                   [h EXCEPT !.render.filepath = p["output_path"]])
        r2 == Stmt(r1, p, {"fps"}, "", [r1.bpy EXCEPT !.render.fps = p["fps"]])
        r3 == fps_base_option(r2, p)
        r4 == Stmt(r3, p, {"file_format"}, "",
                   [r3.bpy EXCEPT !.render.file_format = p["file_format"]])
        r5 == Stmt(r4, p, {"color_mode"}, "",
                   [r4.bpy EXCEPT !.render.color_mode = p["color_mode"]])
    IN  Stmt(r5, p, {"alpha_mode"}, "",
             [r5.bpy EXCEPT !.render.film_transparent = p["alpha_mode"]])

\* resolution_x, resolution_y and resolution_percentage.
render_options_resolution(r, p) ==
    LET r1 == Stmt(r, p, {"resolution_x"}, "",
                   [r.bpy EXCEPT !.render.resolution_x = p["resolution_x"]])
        r2 == Stmt(r1, p, {"resolution_y"}, "",
                   [r1.bpy EXCEPT !.render.resolution_y = p["resolution_y"]])
    IN  Stmt(r2, p, {"resolution_percentage"}, "",
             [r2.bpy EXCEPT !.render.resolution_percentage = p["resolution_percentage"]])

\* The render options of lens_flare.py and neon_curves.py.
render_options(h, p) == render_options_resolution(render_options_head(h, p), p)

\* The render options of spacemovie_intro.py, which also sets
\* bpy.data.worlds[0].color = params["horizon_color"].
render_options_spacemovie(h, p) ==
    LET r1 == render_options_head(h, p)
        r2 == Stmt(r1, p, {"horizon_color"},
                   IF Len(r1.bpy.worlds) = 0 THEN "IndexError" ELSE "",
                   [r1.bpy EXCEPT !.worlds[1].color = p["horizon_color"]])
    IN  render_options_resolution(r2, p)

SetRenderOptions ==
    /\ script \in {"lens_flare", "neon_curves"} /\ pc = "render" /\ err = ""
    /\ Finish(render_options(bpy, params), "speed")
    /\ UNCHANGED <<colorVars, fcurveVars, principledVars, script, params_json, params, runs, once>>

SetRenderOptionsSpacemovie ==
    /\ Running("spacemovie_intro", "render")
    /\ Finish(render_options_spacemovie(bpy, params), "speed")
    /\ UNCHANGED <<colorVars, fcurveVars, principledVars, script, params_json, params, runs, once>>

\* Mutant: the multiplier is added to end_frame.
new_length_added(p) == p["end_frame"] + Round(p["length_multiplier"])

\* Mutant: the multiplier is not rounded to the nearest integer.
length_multiplier_truncated(p) == RoundDown(p["length_multiplier"])

\* length_multiplier = round(params["length_multiplier"])
length_multiplier(p) == Round(p["length_multiplier"])

\* new_length = params["end_frame"] * length_multiplier
new_length(p) == p["end_frame"] * length_multiplier(p)

\* Time remapping and the frame range.
animation_speed(h, p) ==
    LET r1 == Stmt(Run(h), p, {"length_multiplier"}, "", h)
        r2 == Stmt(r1, p, {"end_frame"}, "", h)
        r3 == Stmt(r2, p, {}, "", [h EXCEPT !.render.frame_map_old = 1])
        r4 == Stmt(r3, p, {}, "",
                   [r3.bpy EXCEPT !.render.frame_map_new = length_multiplier(p)])
        r5 == Stmt(r4, p, {"start_frame"}, "",
                   [r4.bpy EXCEPT !.scene.frame_start = p["start_frame"]])
    IN  Stmt(r5, p, {}, "", [r5.bpy EXCEPT !.scene.frame_end = new_length(p)])

SetAnimationSpeed ==
    /\ script \in Scripts /\ pc = "speed" /\ err = ""
    /\ Finish(animation_speed(bpy, params), "done")
    /\ UNCHANGED <<colorVars, fcurveVars, principledVars, script, params_json, params, runs, once>>

(***************************************************************************)
(* spacemovie_intro.py: the text bodies.                                   *)
(***************************************************************************)
\* bpy.data.objects[name].data.body = params[name]
set_text_body(r, p, name) ==
    Stmt(r, p, {name},
         IF name \in DOMAIN r.bpy.objects THEN "" ELSE "KeyError(bpy)",
         [r.bpy EXCEPT !.objects[name].data.body = p[name]])

text_settings_spacemovie(h, p) ==
    set_text_body(
      set_text_body(
        set_text_body(
          set_text_body(
            set_text_body(Run(h), p, "Alongtimeago"),
            p, "Episode"),
          p, "EpisodeTitle"),
        p, "TitleSpaceMovie"),
      p, "MainText")

ModifyTextSpacemovie ==
    /\ Running("spacemovie_intro", "scene")
    /\ Finish(text_settings_spacemovie(bpy, params), "render")
    /\ UNCHANGED <<colorVars, fcurveVars, principledVars, script, params_json, params, runs, once>>

(***************************************************************************)
(* lens_flare.py                                                           *)
(***************************************************************************)
\* The value a sequence is coerced to: ensure_rgba of it, and opaque white
\* when ensure_rgba raises and float(value) raises too, as it does for every
\* sequence.
safe_rgba(value) ==
    IF ensure_rgba_raises(value) THEN <<100, 100, 100, 100>> ELSE ensure_rgba(value)

\* Mutant: the Sphere is moved by the start position from where it is.
sphere_location_relative(h, p) ==
    LET r1 == Stmt(Run(h), p, {}, IF "Sphere" \in DOMAIN h.objects THEN "" ELSE "KeyError(bpy)", h)
    IN  Stmt(r1, p, {"start_x", "start_y", "start_z"}, "",
             [h EXCEPT !.objects["Sphere"].location =
                 <<@[1] + p["start_x"], @[2] + p["start_y"], @[3] + p["start_z"]>>])

\* sphere_object = bpy.data.objects["Sphere"]
\* sphere_object.location = [start_x, start_y, start_z]
sphere_location(h, p) ==
    LET r1 == Stmt(Run(h), p, {}, IF "Sphere" \in DOMAIN h.objects THEN "" ELSE "KeyError(bpy)", h)
    IN  Stmt(r1, p, {"start_x", "start_y", "start_z"}, "",
             [h EXCEPT !.objects["Sphere"].location =
                 <<p["start_x"], p["start_y"], p["start_z"]>>])

ModifySphereLocation ==
    /\ Running("lens_flare", "scene")
    /\ Finish(sphere_location(bpy, params), "keyframes")
    /\ UNCHANGED <<colorVars, fcurveVars, principledVars, script, params_json, params, runs, once>>

\* Mutant: the lookup error is not caught and leaves the block.
sphere_fcurves_uncaught(action) ==
    LET found == get_action_fcurves(action) IN
    [raised |-> found.raised, where |-> found.where, empty |-> FALSE]

\* try: fcurves = list(get_action_fcurves(action))
\* except Exception: fcurves = list(getattr(action, "fcurves", []))
\* The lookup raises only for an action without the attribute, for which the
\* fallback is the empty list.  raised says whether an exception leaves the
\* statement (never: it is caught), and empty that the list is empty
\* whatever "where" holds.
sphere_fcurves(action) ==
    LET found == get_action_fcurves(action) IN
    IF found.raised
    THEN [raised |-> FALSE, where |-> <<>>, empty |-> TRUE]
    ELSE [raised |-> FALSE, where |-> found.where, empty |-> FALSE]

\* Mutant: the point's frame is its number instead of the literal frame.
set_kp_numbered(h, i, idx, frame, value) ==
    LET action == h.actions["SphereAction"]
        found == sphere_fcurves(action)
        fcurves == IF found.empty THEN <<>> ELSE CurvesAt(action, found.where)
        c == by_index(fcurves, i)
    IN  IF c = 0 \/ ~(Len(fcurves[c].keyframe_points) > idx) THEN h
        ELSE [h EXCEPT !.actions["SphereAction"] =
                 SetCurvesAt(action, found.where,
                             SetKeyframePoint(fcurves, c, idx + 1, idx, value))]

\* _set_kp(fc, idx, frame, value) with fc the curve of array index i:
\* fc_x = by_index.get(0) if by_index else (fcurves[0] if len(fcurves) > 0
\* else None), where by_index is empty only when fcurves is.
set_kp(h, i, idx, frame, value) ==
    LET action == h.actions["SphereAction"]
        found == sphere_fcurves(action)
        fcurves == IF found.empty THEN <<>> ELSE CurvesAt(action, found.where)
        c == by_index(fcurves, i)
    IN  IF c = 0 \/ ~(Len(fcurves[c].keyframe_points) > idx) THEN h
        ELSE [h EXCEPT !.actions["SphereAction"] =
                 SetCurvesAt(action, found.where,
                             SetKeyframePoint(fcurves, c, idx + 1, frame, value))]

\* The SphereAction block: nothing without the action; otherwise the six
\* _set_kp calls in order.  An exception leaving the lookup statement would
\* end the script there.
sphere_keyframes(h, p) ==
    IF "SphereAction" \notin DOMAIN h.actions THEN Run(h)
    ELSE IF sphere_fcurves(h.actions["SphereAction"]).raised
    THEN [bpy |-> h, err |-> "AttributeError"]
    ELSE
    LET r1 == Stmt(Run(h), p, {"start_x"}, "", set_kp(h, 0, 0, 1, p["start_x"]))
        r2 == Stmt(r1, p, {"start_y"}, "", set_kp(r1.bpy, 1, 0, 1, p["start_y"]))
        r3 == Stmt(r2, p, {"start_z"}, "", set_kp(r2.bpy, 2, 0, 1, p["start_z"]))
        r4 == Stmt(r3, p, {"end_x"}, "", set_kp(r3.bpy, 0, 1, 300, p["end_x"]))
        r5 == Stmt(r4, p, {"end_y"}, "", set_kp(r4.bpy, 1, 1, 300, p["end_y"]))
    IN  Stmt(r5, p, {"end_z"}, "", set_kp(r5.bpy, 2, 1, 300, p["end_z"]))

ModifySphereKeyframes ==
    /\ Running("lens_flare", "keyframes")
    /\ Finish(sphere_keyframes(bpy, params), "material")
    /\ UNCHANGED <<colorVars, fcurveVars, principledVars, script, params_json, params, runs, once>>

\* The Material.001 block; pn is the position of the Principled BSDF node.
principled_settings(h, p, pn) ==
    LET n == Len(h.materials["Material.001"].node_tree.nodes[pn].inputs)
        r1 == Stmt(Run(h), p, {"diffuse_color"}, IF n > 0 THEN "" ELSE "IndexError",
                   [h EXCEPT !.materials["Material.001"].node_tree.nodes[pn]
                                 .inputs[1].default_value = safe_rgba(p["diffuse_color"])])
        r2 == IF n > 26
              THEN Stmt(r1, p, {"diffuse_color"}, "",
                        [r1.bpy EXCEPT !.materials["Material.001"].node_tree.nodes[pn]
                                 .inputs[27].default_value = safe_rgba(p["diffuse_color"])])
              ELSE r1
        r3 == Stmt(r2, p, {"strength"}, "", r2.bpy)
        r4 == IF n > 27
              THEN Stmt(r3, p, {}, "",
                        [r3.bpy EXCEPT !.materials["Material.001"].node_tree.nodes[pn]
                                 .inputs[28].default_value =
                                     <<p["strength"], p["strength"], p["strength"], 100>>])
              ELSE r3
        alpha == IndexOfName(h.materials["Material.001"].node_tree.nodes[pn].inputs, "Alpha")
    IN  IF alpha # 0
        THEN Stmt(r4, p, {"alpha"}, "",
                  [r4.bpy EXCEPT !.materials["Material.001"].node_tree.nodes[pn]
                                 .inputs[alpha].default_value = p["alpha"]])
        ELSE r4

material_settings(h, p) ==
    IF "Material.001" \notin DOMAIN h.materials THEN Run(h)
    ELSE IF ~h.materials["Material.001"].node_tree.present THEN Run(h)
    ELSE LET pn == IndexOfName(h.materials["Material.001"].node_tree.nodes, "Principled BSDF")
         IN  IF pn = 0 THEN Run(h) ELSE principled_settings(h, p, pn)

ChangeMaterialSettings ==
    /\ Running("lens_flare", "material")
    /\ Finish(material_settings(bpy, params), "glare1")
    /\ UNCHANGED <<colorVars, fcurveVars, principledVars, script, params_json, params, runs, once>>

\* glare_node = bpy.data.node_groups["Compositing Nodetree"].nodes[name] and
\* the four writes to its inputs 9, 1, 11 and 12.
glare_settings(h, p, name, type_key, streaks_key, angle_key) ==
    LET group == "Compositing Nodetree"
        gn == IF group \in DOMAIN h.node_groups
              THEN IndexOfName(h.node_groups[group].nodes, name) ELSE 0
        n == IF gn = 0 THEN 0 ELSE Len(h.node_groups[group].nodes[gn].inputs)
        r1 == Stmt(Run(h), p, {}, IF gn = 0 THEN "KeyError(bpy)" ELSE "", h)
        r2 == Stmt(r1, p, {"diffuse_color"}, IF n > 9 THEN "" ELSE "IndexError",
                   [h EXCEPT !.node_groups[group].nodes[gn].inputs[10].default_value =
                       p["diffuse_color"]])
        r3 == Stmt(r2, p, {type_key}, IF n > 1 THEN "" ELSE "IndexError",
                   [r2.bpy EXCEPT !.node_groups[group].nodes[gn].inputs[2].default_value =
                       p[type_key]])
        r4 == Stmt(r3, p, {streaks_key}, IF n > 11 THEN "" ELSE "IndexError",
                   [r3.bpy EXCEPT !.node_groups[group].nodes[gn].inputs[12].default_value =
                       Round(p[streaks_key])])
    IN  Stmt(r4, p, {angle_key}, IF n > 12 THEN "" ELSE "IndexError",
             [r4.bpy EXCEPT !.node_groups[group].nodes[gn].inputs[13].default_value =
                 p[angle_key]])

ChangeGlare ==
    /\ Running("lens_flare", "glare1")
    /\ Finish(glare_settings(bpy, params, "Glare",
                             "glare1_type", "glare1_streaks", "glare1_angle"), "glare2")
    /\ UNCHANGED <<colorVars, fcurveVars, principledVars, script, params_json, params, runs, once>>

ChangeGlare001 ==
    /\ Running("lens_flare", "glare2")
    /\ Finish(glare_settings(bpy, params, "Glare.001",
                             "glare2_type", "glare2_streaks", "glare2_angle"), "render")
    /\ UNCHANGED <<colorVars, fcurveVars, principledVars, script, params_json, params, runs, once>>

(***************************************************************************)
(* neon_curves.py                                                          *)
(***************************************************************************)
\* text_object = bpy.data.curves["Text.001"] and its six settings.
text_settings(h, p) ==
    LET t == "Text.001"
        r0 == Stmt(Run(h), p, {}, IF t \in DOMAIN h.curves THEN "" ELSE "KeyError(bpy)", h)
        r1 == Stmt(r0, p, {"extrude"}, "", [h EXCEPT !.curves[t].extrude = p["extrude"]])
        r2 == Stmt(r1, p, {"bevel_depth"}, "",
                   [r1.bpy EXCEPT !.curves[t].bevel_depth = p["bevel_depth"]])
        r3 == Stmt(r2, p, {"title"}, "", [r2.bpy EXCEPT !.curves[t].body = p["title"]])
        r4 == Stmt(r3, p, {"spacemode"}, "",
                   [r3.bpy EXCEPT !.curves[t].align_x = p["spacemode"]])
        r5 == Stmt(r4, p, {"text_size"}, "", [r4.bpy EXCEPT !.curves[t].size = p["text_size"]])
    IN  Stmt(r5, p, {"width"}, "", [r5.bpy EXCEPT !.curves[t].space_character = p["width"]])

ModifyText ==
    /\ Running("neon_curves", "scene")
    /\ Finish(text_settings(bpy, params), "font")
    /\ UNCHANGED <<colorVars, fcurveVars, principledVars, script, params_json, params, runs, once>>

\* load_font(font_path): bpy.ops.font.open raises RuntimeError for a file it
\* cannot read; the font returned is the one the call added, "None" when it
\* added none.
load_font(h, font_path) ==
    IF font_path \notin DOMAIN h.font_files
    THEN [bpy |-> h, err |-> "RuntimeError", font |-> "None"]
    ELSE LET added == h.font_files[font_path] IN
         [bpy |-> [h EXCEPT !.fonts = @ \cup {added}], err |-> "",
          font |-> IF added \in h.fonts THEN "None" ELSE added]

\* The font block: load_font for a fontname other than "Bfont", otherwise
\* bpy.data.fonts["Bfont"]; then text_object.font = font.
font_settings(h, p) ==
    IF "fontname" \notin DOMAIN p THEN [bpy |-> h, err |-> "KeyError(params)"]
    ELSE IF p["fontname"] # "Bfont"
    THEN LET loaded == load_font(h, p["fontname"]) IN
         IF loaded.err # "" THEN [bpy |-> loaded.bpy, err |-> loaded.err]
         ELSE Run([loaded.bpy EXCEPT !.curves["Text.001"].font = loaded.font])
    ELSE IF "Bfont" \notin h.fonts THEN [bpy |-> h, err |-> "KeyError(bpy)"]
    ELSE Run([h EXCEPT !.curves["Text.001"].font = "Bfont"])

GetFont ==
    /\ Running("neon_curves", "font")
    /\ Finish(font_settings(bpy, params), "material")
    /\ UNCHANGED <<colorVars, fcurveVars, principledVars, script, params_json, params, runs, once>>

\* What stops material name's node_tree.nodes[1].inputs[k] from being
\* reached, "" when nothing does.
emission_input_error(h, name, k) ==
    IF ~h.materials[name].node_tree.present THEN "AttributeError"
    ELSE IF Len(h.materials[name].node_tree.nodes) < 2 THEN "IndexError"
    ELSE IF Len(h.materials[name].node_tree.nodes[2].inputs) <= k THEN "IndexError"
    ELSE ""

\* material_object = bpy.data.materials[name]
get_material(r, p, name) ==
    Stmt(r, p, {}, IF name \in DOMAIN r.bpy.materials THEN "" ELSE "KeyError(bpy)", r.bpy)

\* material_object.node_tree.nodes[1].inputs[k].default_value = params[key]
set_emission_input(r, p, name, k, key) ==
    Stmt(r, p, {key}, IF r.err = "" THEN emission_input_error(r.bpy, name, k) ELSE "",
         [r.bpy EXCEPT !.materials[name].node_tree.nodes[2].inputs[k + 1].default_value = p[key]])

\* The title material and the four line materials.
material_settings_neon(h, p) ==
    LET r0 == get_material(Run(h), p, "Material.title")
        r1 == Stmt(r0, p, {"diffuse_color"}, "",
                   [h EXCEPT !.materials["Material.title"].diffuse_color = p["diffuse_color"]])
        r2 == set_emission_input(r1, p, "Material.title", 0, "diffuse_color")
        r3 == set_emission_input(r2, p, "Material.title", 1, "strength")
        r4 == set_emission_input(get_material(r3, p, "Material.line1"), p,
                                 "Material.line1", 0, "line1_diffuse_color")
        r5 == set_emission_input(get_material(r4, p, "Material.line2"), p,
                                 "Material.line2", 0, "line2_diffuse_color")
        r6 == set_emission_input(get_material(r5, p, "Material.line3"), p,
                                 "Material.line3", 0, "line3_diffuse_color")
    IN  set_emission_input(get_material(r6, p, "Material.line4"), p,
                           "Material.line4", 0, "line4_diffuse_color")

ChangeMaterialSettingsNeon ==
    /\ Running("neon_curves", "material")
    /\ Finish(material_settings_neon(bpy, params), "glare")
    /\ UNCHANGED <<colorVars, fcurveVars, principledVars, script, params_json, params, runs, once>>

\* bpy.data.scenes[0].node_tree.nodes["Glare"].glare_type = params["glare_type"]
glare_type_setting(h, p) ==
    LET gn == IndexOfName(h.scene_nodes, "Glare") IN
    Stmt(Run(h), p, {"glare_type"}, IF gn = 0 THEN "KeyError(bpy)" ELSE "",
         [h EXCEPT !.scene_nodes[gn].glare_type = p["glare_type"]])

ChangeGlareType ==
    /\ Running("neon_curves", "glare")
    /\ Finish(glare_type_setting(bpy, params), "render")
    /\ UNCHANGED <<colorVars, fcurveVars, principledVars, script, params_json, params, runs, once>>

(***************************************************************************)
(* A run of one script.                                                    *)
(***************************************************************************)
Next ==
    \/ ProcessParameters
    \/ ModifySphereLocation
    \/ ModifySphereKeyframes
    \/ ChangeMaterialSettings
    \/ ChangeGlare
    \/ ChangeGlare001
    \/ ModifyText
    \/ GetFont
    \/ ChangeMaterialSettingsNeon
    \/ ChangeGlareType
    \/ ModifyTextSpacemovie
    \/ SetRenderOptions
    \/ SetRenderOptionsSpacemovie
    \/ SetAnimationSpeed

Spec == InitScript /\ [][Next]_vars

(***************************************************************************)
(* The host runs the script once more on the project the first run left.   *)
(***************************************************************************)
\* The run is over: the script reached its end or an exception ended it.
Ended == script \in Scripts /\ (pc = "done" \/ err # "")

\* The script text is executed again from its first line: params is set
\* anew, the injected text is the same, and the host project is as the
\* first run left it.
RunAgain ==
    /\ Ended
    /\ runs = 1
    /\ runs' = 2
    /\ once' = bpy
    /\ params' = Defaults(script)
    /\ pc' = "merge"
    /\ err' = ""
    /\ UNCHANGED <<colorVars, fcurveVars, principledVars, bpy, script, params_json>>

NextTwice == Next \/ RunAgain

SpecTwice == InitScript /\ [][NextTwice]_vars

(***************************************************************************)
(* The keyframing helpers: keyframe_color_socket, keyframe_value_socket    *)
(* and keyframe_principled.                                                *)
(*                                                                         *)
(* A socket of a shader node is [name, type, default_value, animation]:    *)
(* animation is the sequence of keyframe_insert calls made on it, each     *)
(* [index, frame, value] with value what the keyframe captures, namely     *)
(* default_value[index] at the time of the call (index -1 is a call        *)
(* without index, which captures the whole default_value).                 *)
(***************************************************************************)
ShaderSocket(name, type) ==
    [name |-> name, type |-> type,
     default_value |-> IF type = "RGBA" THEN <<0, 0, 0, 0>> ELSE 0,
     animation |-> <<>>]

\* socket.keyframe_insert("default_value", index=idx, frame=frame)
keyframe_insert(socket, idx, frame) ==
    [socket EXCEPT !.animation =
        Append(@, [index |-> idx, frame |-> frame,
                   value |-> socket.default_value[idx + 1]])]

\* socket.keyframe_insert("default_value", frame=frame)
keyframe_insert_all(socket, frame) ==
    [socket EXCEPT !.animation =
        Append(@, [index |-> -1, frame |-> frame, value |-> socket.default_value])]

\* for idx in range(4): socket.keyframe_insert(..., index=idx, frame=frame)
RECURSIVE insert_indices(_, _, _)
insert_indices(socket, idx, frame) ==
    IF idx > 3 THEN socket
    ELSE insert_indices(keyframe_insert(socket, idx, frame), idx + 1, frame)

\* Mutant: the keyframes are inserted before the color is written.
color_pair_inserted_first(socket, frame, c) ==
    [insert_indices(socket, 0, frame) EXCEPT !.default_value = ensure_rgba(c)]

\* One turn of the loop of keyframe_color_socket:
\* rgba = ensure_rgba(color); socket.default_value = rgba; four insertions.
color_pair(socket, frame, c) ==
    insert_indices([socket EXCEPT !.default_value = ensure_rgba(c)], 0, frame)

\* keyframe_color_socket(socket, keyframes), from pair k on.
RECURSIVE color_pairs_from(_, _, _)
color_pairs_from(socket, kfs, k) ==
    IF k > Len(kfs) THEN socket
    ELSE color_pairs_from(color_pair(socket, kfs[k][1], kfs[k][2]), kfs, k + 1)

keyframe_color_socket(socket, kfs) == color_pairs_from(socket, kfs, 1)

\* for frame in frames: socket.keyframe_insert("default_value", frame=frame)
RECURSIVE insert_frames(_, _, _)
insert_frames(socket, frames, k) ==
    IF k > Len(frames) THEN socket
    ELSE insert_frames(keyframe_insert_all(socket, frames[k]), frames, k + 1)

\* keyframe_value_socket(socket, value, frames)
keyframe_value_socket(socket, value, frames) ==
    insert_frames([socket EXCEPT !.default_value = value], frames, 1)


\* Socket names that hold the text "Specular Tint".
SpecularTintNames == {"Specular Tint"}

\* The loop over bsdf.inputs and the fallback to inputs[14]: the position of
\* the first RGBA socket whose name holds "Specular Tint", else 15 when
\* there are more than 14 inputs and inputs[14] is RGBA, else 0 (None).
specular_tint_sock(inputs) ==
    LET hits == {k \in 1..Len(inputs) :
                    inputs[k].name \in SpecularTintNames /\ inputs[k].type = "RGBA"}
    IN  IF hits # {} THEN CHOOSE k \in hits : \A x \in hits : k <= x
        ELSE IF Len(inputs) > 14 /\ inputs[15].type = "RGBA" THEN 15
        ELSE 0

\* The part of keyframe_principled after the node has been found (lines
\* 97-125): the writes to the node's inputs, in order.  An optional argument
\* is <<>> for None and <<v>> for the value v.
principled_inputs(inputs, a) ==
    LET n == Len(inputs)
        base_sock == IndexOfName(inputs, "Base Color")
        emission_sock == IF n > 27 THEN 28 ELSE 0
        emission_strength_sock == IF n > 28 THEN 29 ELSE 0
        ior_sock == IF n > 3 THEN 4 ELSE 0
        tint_sock == specular_tint_sock(inputs)
        i1 == IF base_sock # 0 /\ a.base_keyframes # <<>>
              THEN [inputs EXCEPT ![base_sock] = keyframe_color_socket(@, a.base_keyframes)]
              ELSE inputs
        i2 == IF emission_sock # 0 /\ a.emission_keyframes # <<>>
              THEN [i1 EXCEPT ![emission_sock] = keyframe_color_socket(@, a.emission_keyframes)]
              ELSE i1
        i3 == IF emission_strength_sock # 0 /\ a.emission_strength # <<>>
              THEN [i2 EXCEPT ![emission_strength_sock] =
                       keyframe_value_socket(@, a.emission_strength[1][1],
                                             a.emission_strength[1][2])]
              ELSE i2
        i4 == IF ior_sock # 0 /\ a.specular_value # <<>>
              THEN [i3 EXCEPT ![ior_sock].default_value = a.specular_value[1]]
              ELSE i3
    IN  IF tint_sock # 0 /\ a.specular_color # <<>>
        THEN [i4 EXCEPT ![tint_sock].default_value = ensure_rgba(a.specular_color[1])]
        ELSE i4

\* keyframe_principled(material_name, ...): the outcome ("None" or the
\* "mat") and the host's materials afterwards.
keyframe_principled(materials, material_name, a) ==
    IF material_name \notin DOMAIN materials
    THEN [outcome |-> "None", materials |-> materials]
    ELSE
    LET m0 == materials[material_name]
        m1 == IF a.viewport_color # <<>>
              THEN [m0 EXCEPT !.diffuse_color = ensure_rgba(a.viewport_color[1])]
              ELSE m0
        m2 == IF a.specular_color # <<>>
              THEN [m1 EXCEPT !.specular_color = SubSeq(ensure_rgba(a.specular_color[1]), 1, 3)]
              ELSE m1
        bsdf == IF m2.node_tree.present
                THEN IndexOfName(m2.node_tree.nodes, "Principled BSDF") ELSE 0
    IN  IF bsdf = 0
        THEN [outcome |-> "mat", materials |-> [materials EXCEPT ![material_name] = m2]]
        ELSE [outcome |-> "mat",
              materials |-> [materials EXCEPT ![material_name] =
                  [m2 EXCEPT !.node_tree.nodes[bsdf].inputs = principled_inputs(@, a)]]]


\* The inputs of a Principled BSDF node as the host may have them: n
\* sockets, the first called "Base Color" or not, and the specular tint
\* "named" (an RGBA socket "Specular Tint" before inputs[14]), "float" (a
\* socket of that name that is not RGBA), "positional" (inputs[14] RGBA
\* under another name) or "none".
PrincipledInputs(n, base_named, tint) ==
    [k \in 1..n |->
        CASE k = 1 -> ShaderSocket(IF base_named THEN "Base Color" ELSE "Color", "RGBA")
          [] k = 4 -> ShaderSocket("IOR", "VALUE")
          [] k = 13 /\ tint = "named" -> ShaderSocket("Specular Tint", "RGBA")
          [] k = 13 /\ tint = "float" -> ShaderSocket("Specular Tint", "VALUE")
          [] k = 15 -> ShaderSocket("Tint", IF tint = "none" THEN "VALUE" ELSE "RGBA")
          [] k = 28 -> ShaderSocket("Emission Color", "RGBA")
          [] k = 29 -> ShaderSocket("Emission Strength", "VALUE")
          [] OTHER -> ShaderSocket("Input", "VALUE")]

PrincipledMaterial(tree) ==
    [diffuse_color |-> <<80, 80, 80, 100>>, specular_color |-> <<100, 100, 100>>,
     node_tree |-> tree]

\* What the host may hold under the name "Material.001" when the helper
\* runs: nothing ("absent"), a material without node tree ("no tree"), one
\* whose tree has no Principled BSDF node ("no node"), or one with the node.
PrincipledMaterials(kind, n, base_named, tint) ==
    CASE kind = "absent" -> <<>>
      [] kind = "no tree" -> Named("Material.001", PrincipledMaterial(NoTree))
      [] kind = "no node" ->
            Named("Material.001", PrincipledMaterial(Tree(
                <<[name |-> "Material Output", inputs |-> <<>>]>>)))
      [] kind = "node" ->
            Named("Material.001", PrincipledMaterial(Tree(
                <<[name |-> "Material Output", inputs |-> <<>>],
                  [name |-> "Principled BSDF",
                   inputs |-> PrincipledInputs(n, base_named, tint)]>>)))

\* The arguments of a keyframe_principled call; <<>> is None.
PrincipledCalls ==
    [base_keyframes : {<<>>, << <<1, <<100, 50, 0>>>>, <<300, <<0, 50, 100, 50>>>> >>},
     emission_keyframes : {<<>>, << <<1, <<50, 50, 50>>>> >>},
     emission_strength : {<<>>, << <<75, <<1, 300>>>> >>},
     viewport_color : {<<>>, << <<10, 20, 30>> >>},
     specular_value : {<<>>, <<50>>},
     specular_color : {<<>>, << <<20, 30, 40>> >>}]

InitPrincipled ==
    /\ IdleColor /\ IdleScript
    /\ \E acts \in {<<>>, Named("SphereAction", LegacyAction(MixedCurves))} :
         \E kind \in {"absent", "no tree", "no node", "node"} :
           \E n \in {0, 3, 15, 28, 29}, b \in BOOLEAN,
              t \in {"named", "float", "positional", "none"} :
             bpy = [actions |-> acts, materials |-> PrincipledMaterials(kind, n, b, t)]
    /\ keyframes = [p \in 1..MaxKeyframes |-> KeyframePair(p)]
    /\ ret = "pending"
    /\ call \in PrincipledCalls
    /\ mat = "pending"

\* mat = keyframe_principled("Material.001", ...)
KeyframePrincipled ==
    /\ mat = "pending"
    /\ LET r == keyframe_principled(bpy.materials, "Material.001", call) IN
           /\ mat' = r.outcome
           /\ bpy' = [bpy EXCEPT !.materials = r.materials]
    /\ UNCHANGED <<colorVars, fcurveVars, call, scriptVars>>

\* The two helpers called on one project, in either order.
NextPrincipled == UpdateColorFcurves \/ KeyframePrincipled

SpecPrincipled == InitPrincipled /\ [][NextPrincipled]_vars


\* The colors and frames a keyframe_color_socket call is given: RGB and
\* RGBA colors, at the frames of the lens flare animation.
SocketColors == <<<<100, 50, 0>>, <<0, 50, 100>>, <<100, 50, 0, 50>>, <<0, 0, 0, 0>>>>
SocketFrames == {1, 300}

SocketPairs == {<<f, SocketColors[c]>> : f \in SocketFrames, c \in DOMAIN SocketColors}

\* A color socket that has been used before: it holds a color and a keyframe.
UsedSocket ==
    [name |-> "Base Color", type |-> "RGBA", default_value |-> <<80, 80, 80, 100>>,
     animation |-> <<[index |-> 0, frame |-> 1, value |-> 80]>>]

InitSocket ==
    /\ IdleColor /\ IdlePrincipled /\ IdleScript
    /\ \E sock \in {ShaderSocket("Base Color", "RGBA"), UsedSocket} : bpy = [socket |-> sock]
    /\ keyframes \in SeqUpTo(SocketPairs, MaxKeyframes)
    /\ ret = "pending"

\* keyframe_color_socket(socket, keyframes)
KeyframeColorSocket ==
    /\ ret = "pending"
    /\ bpy' = [bpy EXCEPT !.socket = keyframe_color_socket(@, keyframes)]
    /\ ret' = "None"
    /\ UNCHANGED <<colorVars, keyframes, principledVars, scriptVars>>

NextSocket == KeyframeColorSocket

SpecSocket == InitSocket /\ [][NextSocket]_vars


(***************************************************************************)
(* _safe_rgba on any JSON value.  A value is [kind, items, number]: a      *)
(* "sequence" with its items, a "number", a "numeral" (a string of one or  *)
(* two characters that float() parses, with the number it parses to), or   *)
(* "none" (None, on which len() and float() both raise TypeError).         *)
(***************************************************************************)
WHITE == <<100, 100, 100, 100>>

\* try: return ensure_rgba(value)
\* except Exception: try: v = float(value); return [v, v, v, 1.0]
\*                   except Exception: return [1.0, 1.0, 1.0, 1.0]
\* len() raises TypeError on a number and on None; on a numeral len() is
\* below 3 and color[2] (or color[1]) raises IndexError.
safe_rgba_value(v) ==
    CASE v.kind = "sequence" -> safe_rgba(v.items)
      [] v.kind \in {"number", "numeral"} -> <<v.number, v.number, v.number, 100>>
      [] OTHER -> WHITE

SafeValues ==
    {[kind |-> "sequence", items |-> c, number |-> 0] : c \in SeqUpTo(Components, MaxColorLen)}
    \cup {[kind |-> k, items |-> <<>>, number |-> n] :
             k \in {"number", "numeral"}, n \in Components \cup {500}}
    \cup {[kind |-> "none", items |-> <<>>, number |-> 0]}

InitSafe ==
    /\ IdleFcurves /\ IdlePrincipled /\ IdleScript
    /\ bpy = <<>>
    /\ color \in SafeValues
    /\ rgba = <<>>
    /\ rgba2 = <<>>
    /\ cpc = "input"

\* rgba = _safe_rgba(color)
SafeRgba ==
    /\ cpc = "input"
    /\ rgba' = safe_rgba_value(color)
    /\ cpc' = "coerced"
    /\ UNCHANGED <<color, rgba2, bpy, fcurveVars, principledVars, scriptVars>>

NextSafe == SafeRgba

SpecSafe == InitSafe /\ [][NextSafe]_vars

(***************************************************************************)
(* Claims about ensure_rgba, checked under SpecColor.                      *)
(***************************************************************************)
ColorReturned == cpc \in {"once", "twice"}

\* C1: given a 3-component color [r, g, b], ensure_rgba returns the
\* 4-component color [r, g, b, 1.0]: the three components are kept in order
\* and unchanged and the appended alpha is exactly 1.0.
C1_AppendsOpaqueAlpha ==
    (ColorReturned /\ Len(color) = 3) =>
        /\ Len(rgba) = 4
        /\ \A i \in 1..3 : rgba[i] = color[i]
        /\ rgba[4] = 100

\* C1 witness: a 3-component color with three different components has been
\* normalised.
C1_Witness == cpc = "once" /\ color = <<0, 50, 100>> /\ Len(rgba) = 4

\* C2: ensure_rgba returns every 4-component color unchanged, a non-1.0 alpha
\* included, and applying it to its own result changes nothing for a color of
\* 3 or 4 components.
C2_NoOpOnRgba ==
    /\ (ColorReturned /\ Len(color) = 4) => rgba = color
    /\ (cpc = "twice" /\ Len(color) \in {3, 4}) => rgba2 = rgba

\* C2 witness: a 4-component color whose alpha is not 1.0 has been normalised
\* twice.
C2_Witness == cpc = "twice" /\ Len(color) = 4 /\ color[4] # 100

\* C3 (as claimed): for every color of 3 or more components the result of
\* ensure_rgba has exactly 4 components.
C3_AlwaysFourComponents ==
    (ColorReturned /\ Len(color) >= 3) => Len(rgba) = 4

(***************************************************************************)
(* Claims about get_action_fcurves and update_color_fcurves, checked under *)
(* SpecFcurves.                                                            *)
(***************************************************************************)
\* The action has no "fcurves" attribute and no channel bag of any strip of
\* any layer has fcurves other than None.
NoFcurvesAnywhere(action) ==
    /\ ~action.has_fcurves_attr
    /\ \A l \in 1..Len(action.layers) :
         \A s \in 1..Len(action.layers[l]) :
           \A b \in 1..Len(action.layers[l][s]) :
             ~action.layers[l][s][b].has_fcurves

\* C7: for an existing action, the call ends in AttributeError exactly when
\* the action has no "fcurves" attribute and no channel bag in any strip of
\* any layer has a non-None fcurves; update_color_fcurves then propagates the
\* error and has modified no keyframe point (the host is as it was).
C7_LookupFailureRaises ==
    [][(ret = "pending" /\ "SphereAction" \in DOMAIN bpy.actions) =>
          /\ (ret' = "AttributeError") <=> NoFcurvesAnywhere(bpy.actions["SphereAction"])
          /\ (ret' = "AttributeError") => (bpy' = bpy)]_vars

\* C7 witness: the call has raised on a layered action that holds a channel
\* bag (whose fcurves is None), with keyframes to write.
C7_Witness ==
    /\ ret = "AttributeError"
    /\ Len(keyframes) > 0
    /\ \E l \in 1..Len(bpy.actions["SphereAction"].layers) :
         \E s \in 1..Len(bpy.actions["SphereAction"].layers[l]) :
           Len(bpy.actions["SphereAction"].layers[l][s]) > 0

(***************************************************************************)
(* Claims about a script run, checked under Spec.                          *)
(***************************************************************************)
Merged == script \in Scripts /\ pc # "merge" /\ params_json.state = "injected"

Completed == script \in Scripts /\ pc = "done"

\* C4: after the merge every key of the injected JSON object maps to its
\* injected value, every default key absent from the injected object still
\* maps to its default value, and the merged key set is the union of the two
\* key sets.
C4_MergeOverlaysInjected ==
    Merged =>
        /\ DOMAIN params = DOMAIN Defaults(script) \cup DOMAIN params_json.obj
        /\ \A k \in DOMAIN params_json.obj :
              k \in DOMAIN params /\ params[k] = params_json.obj[k]
        /\ \A k \in DOMAIN Defaults(script) \ DOMAIN params_json.obj :
              k \in DOMAIN params /\ params[k] = Defaults(script)[k]

\* C4 witness: a merge of an object that leaves out the default key fps, sets
\* the default key end_frame to another value and brings the new key
\* length_multiplier.
C4_Witness ==
    /\ Merged
    /\ "fps" \notin DOMAIN params_json.obj
    /\ params["fps"] = 24
    /\ params["end_frame"] # Defaults(script)["end_frame"]
    /\ "length_multiplier" \in DOMAIN params

\* C5 (as claimed): a key the injected object omits falls back to a default
\* and the script does not fail on reading it: no run ends in the KeyError
\* of params[key].
C5_MissingKeysFallBack ==
    (script \in Scripts /\ params_json.state = "injected") => err # "KeyError(params)"

\* C6 (as claimed): a host object that does not exist only has its own writes
\* skipped: no run ends in the exception of a failed host lookup.
C6_MissingHostObjectsSkipped ==
    script \in Scripts => err \notin {"KeyError(bpy)", "IndexError", "AttributeError"}

\* The lens flare project holds "SphereAction" and the lookup of its curves
\* fails.
SphereLookupFails ==
    /\ script = "lens_flare"
    /\ "SphereAction" \in DOMAIN bpy.actions
    /\ NoFcurvesAnywhere(bpy.actions["SphereAction"])

PositionKeys == {"start_x", "start_y", "start_z", "end_x", "end_y", "end_z"}

\* C8 (as claimed): when SphereAction exists and the lookup of its curves
\* fails, the script does not continue past the keyframe block.
C8_LookupFailureStopsScript ==
    SphereLookupFails => pc \in {"merge", "scene", "keyframes"}

\* C8 (amended): when SphereAction exists and the lookup of its curves fails,
\* the keyframe block catches the error: it raises no AttributeError, leaves
\* the host as it was, and hands over to the material block unless a
\* position key is missing from params.
C8_LookupFailureSwallowed ==
    [][(Running("lens_flare", "keyframes") /\ SphereLookupFails) =>
          /\ bpy' = bpy
          /\ err' # "AttributeError"
          /\ (PositionKeys \subseteq DOMAIN params) => (err' = "" /\ pc' = "material")]_vars

\* C8 witness: a run with a failed lookup has completed.
C8_Witness == SphereLookupFails /\ Completed /\ err = ""

\* The integer n is x (in hundredths) rounded to the nearest integer.
Nearest(n, x) == 100 * n - 50 <= x /\ x <= 100 * n + 50

\* C9: after a script completes, frame_end = end_frame *
\* round(length_multiplier), frame_map_new = round(length_multiplier),
\* frame_map_old = 1 and frame_start = start_frame, for the merged values;
\* end_frame 250 with multiplier 1.0 gives frame_end 250.
C9_FrameRange ==
    Completed =>
        /\ bpy.scene.frame_end = params["end_frame"] * Round(params["length_multiplier"])
        /\ bpy.render.frame_map_new = Round(params["length_multiplier"])
        /\ Nearest(bpy.render.frame_map_new, params["length_multiplier"])
        /\ bpy.render.frame_map_old = 1
        /\ bpy.scene.frame_start = params["start_frame"]
        /\ (params["end_frame"] = 250 /\ params["length_multiplier"] = 100)
              => bpy.scene.frame_end = 250

\* C9 witness: a run with end_frame 250 and multiplier 2.5 has completed with
\* frame_end 500.
C9_Witness ==
    /\ Completed
    /\ params["end_frame"] = 250
    /\ params["length_multiplier"] = 250
    /\ bpy.scene.frame_end = 500

\* C10: after a script completes the render settings equal the merged
\* output_path, fps, file_format, color_mode, alpha_mode, resolution_x,
\* resolution_y and resolution_percentage; fps_base holds the merged
\* fps_base when params has the key and is as the project had it otherwise.
C10_RenderOptionsCopied ==
    Completed =>
        /\ bpy.render.filepath = params["output_path"]
        /\ bpy.render.fps = params["fps"]
        /\ bpy.render.file_format = params["file_format"]
        /\ bpy.render.color_mode = params["color_mode"]
        /\ bpy.render.film_transparent = params["alpha_mode"]
        /\ bpy.render.resolution_x = params["resolution_x"]
        /\ bpy.render.resolution_y = params["resolution_y"]
        /\ bpy.render.resolution_percentage = params["resolution_percentage"]
        /\ "fps_base" \in DOMAIN params => bpy.render.fps_base = params["fps_base"]
        /\ "fps_base" \notin DOMAIN params => bpy.render.fps_base = EmptyHost.render.fps_base

\* C10 witness: a run whose parameters hold fps_base has completed.
C10_Witness ==
    /\ Completed
    /\ "fps_base" \in DOMAIN params
    /\ bpy.render.fps_base = 125
    /\ bpy.render.resolution_x = 1280

(***************************************************************************)
(* C11: the lookup order of get_action_fcurves, checked under SpecFcurves. *)
(***************************************************************************)
\* The places of the channel bags of an action whose fcurves is not None.
BagsWithFcurves(action) ==
    {w \in (1..MaxNodes) \X (1..MaxNodes) \X (1..MaxNodes) :
        /\ w[1] <= Len(action.layers)
        /\ w[2] <= Len(action.layers[w[1]])
        /\ w[3] <= Len(action.layers[w[1]][w[2]])
        /\ action.layers[w[1]][w[2]][w[3]].has_fcurves}

\* Layer-then-strip-then-bag iteration order.
IteratedBefore(v, w) ==
    \/ v[1] < w[1]
    \/ v[1] = w[1] /\ v[2] < w[2]
    \/ v[1] = w[1] /\ v[2] = w[2] /\ v[3] < w[3]

\* No keyframe point of the collection has been written.
Pristine(fcurves) ==
    \A c \in 1..Len(fcurves) :
        \A p \in 1..Len(fcurves[c].keyframe_points) :
            fcurves[c].keyframe_points[p] = KeyframePoint

\* C11: when the call returns the action, the collection it worked on is
\* action.fcurves if the action has that attribute, and otherwise the
\* fcurves of the first channel bag in layer-then-strip-then-bag order whose
\* fcurves is not None: with keyframes to write, that collection (if it
\* holds curves) is the one written, and no other collection of the action,
\* in particular no later channel bag and no layer of an action with the
\* attribute, has a keyframe point written.
C11_LookupOrder ==
    ret = "action" =>
        LET a == bpy.actions["SphereAction"]
            hits == BagsWithFcurves(a)
            first == {w \in hits : \A v \in hits : ~IteratedBefore(v, w)}
            found == IF a.has_fcurves_attr THEN {<<>>} ELSE first
        IN  /\ Cardinality(found) = 1
            /\ get_action_fcurves(a).where \in found
            /\ \A w \in (hits \cup {<<>>}) \ found : Pristine(CurvesAt(a, w))
            /\ \A w \in found :
                  (keyframes # <<>> /\ CurvesAt(a, w) # <<>>) => ~Pristine(CurvesAt(a, w))

\* C11 witness: on an action without the attribute the call has written the
\* curves of a channel bag that comes after a bag whose fcurves is None and
\* before another bag with curves, which is as it was.
C11_Witness ==
    /\ ret = "action"
    /\ keyframes # <<>>
    /\ ~bpy.actions["SphereAction"].has_fcurves_attr
    /\ \E l \in 1..Len(bpy.actions["SphereAction"].layers) :
         \E s \in 1..Len(bpy.actions["SphereAction"].layers[l]) :
           LET bags == bpy.actions["SphereAction"].layers[l][s] IN
           /\ Len(bags) >= 3
           /\ ~bags[1].has_fcurves
           /\ ~Pristine(bags[2].fcurves)
           /\ bags[3].fcurves # <<>> /\ Pristine(bags[3].fcurves)

(***************************************************************************)
(* C12: what update_color_fcurves writes, checked under SpecFcurves.       *)
(***************************************************************************)
\* Point p of a curve with array_index i after the call, given the point
\* before it: written from pair p when i is 0, 1 or 2 and there is a pair p,
\* as it was otherwise.  (Points and pairs count from 1 here.)
PointAfterUpdate(before, i, p) ==
    IF i \in 0..2 /\ p <= Len(keyframes)
    THEN [co |-> <<keyframes[p][1], keyframes[p][2][i + 1]>>,
          handle_left |-> <<before.handle_left[1], keyframes[p][2][i + 1]>>,
          handle_right |-> <<before.handle_right[1], keyframes[p][2][i + 1]>>]
    ELSE before

\* C12: a call on an existing action that returns the action sets keyframe
\* point p of the curve with array_index i to co = (frame_p, color_p[i]) and
\* both handle y values to color_p[i], for exactly the i in {0, 1, 2} that
\* have a curve and the p below that curve's number of keyframe points; the
\* number of curves, their array_index and their numbers of keyframe points
\* stay as they were, and a curve with array_index 3 or more is as it was.
C12_KeyframePointsWritten ==
    [][(ret = "pending" /\ "SphereAction" \in DOMAIN bpy.actions /\ ret' = "action") =>
          LET w == get_action_fcurves(bpy.actions["SphereAction"]).where
              before == CurvesAt(bpy.actions["SphereAction"], w)
              after == CurvesAt(bpy'.actions["SphereAction"], w)
          IN  /\ Len(after) = Len(before)
              /\ \A c \in 1..Len(before) :
                    /\ after[c].array_index = before[c].array_index
                    /\ Len(after[c].keyframe_points) = Len(before[c].keyframe_points)
                    /\ \A p \in 1..Len(before[c].keyframe_points) :
                          after[c].keyframe_points[p] =
                              PointAfterUpdate(before[c].keyframe_points[p],
                                               before[c].array_index, p)]_vars

\* C12 witness: two pairs have been written into a collection whose curve 0
\* has two points, whose curve 1 has one point and whose curve 3 is as it
\* was.
C12_Witness ==
    /\ ret = "action"
    /\ Len(keyframes) = 2
    /\ LET fcs == CurvesAt(bpy.actions["SphereAction"],
                          get_action_fcurves(bpy.actions["SphereAction"]).where)
       IN  /\ Len(fcs) = 3
           /\ fcs[1].keyframe_points[2].co = <<20, 12>>
           /\ fcs[1].keyframe_points[2].handle_right = <<1, 12>>
           /\ Len(fcs[2].keyframe_points) = 1
           /\ fcs[2].keyframe_points[1].co = <<10, 21>>
           /\ fcs[3].array_index = 3 /\ Pristine(<<fcs[3]>>)

(***************************************************************************)
(* C13: the early return of the helpers, checked under SpecPrincipled.     *)
(***************************************************************************)
\* C13: a call of update_color_fcurves on a project without the named action
\* returns None, a call of keyframe_principled on a project without the
\* named material returns None, and either call leaves the whole host
\* (keyframes, material colors, socket values) as it was.
C13_EarlyReturnLeavesHost ==
    [][/\ (ret = "pending" /\ ret' # "pending" /\ "SphereAction" \notin DOMAIN bpy.actions)
             => (ret' = "None" /\ bpy' = bpy)
       /\ (mat = "pending" /\ mat' # "pending" /\ "Material.001" \notin DOMAIN bpy.materials)
             => (mat' = "None" /\ bpy' = bpy)]_vars

\* C13 witness: both helpers have returned None on a project with neither
\* the action nor the material, called with keyframes and colors to write.
C13_Witness ==
    /\ ret = "None" /\ mat = "None"
    /\ keyframes # <<>>
    /\ call.base_keyframes # <<>> /\ call.viewport_color # <<>>
    /\ bpy.actions = <<>> /\ bpy.materials = <<>>

(***************************************************************************)
(* C14: the keyframes of SphereAction, checked under Spec.                 *)
(***************************************************************************)
\* The lens flare script is past its keyframe block.
PastKeyframes ==
    script = "lens_flare" /\ pc \in {"material", "glare1", "glare2", "render", "speed", "done"}

\* The curves the script works on: those the lookup finds in SphereAction.
SphereCurves(h) ==
    CurvesAt(h.actions["SphereAction"], get_action_fcurves(h.actions["SphereAction"]).where)

SphereCurvesFound(h) ==
    /\ "SphereAction" \in DOMAIN h.actions
    /\ ~get_action_fcurves(h.actions["SphereAction"]).raised

\* Keyframe point kp sits at the frame with the value, handles included.
PointAt(kp, frame, value) ==
    kp.co = <<frame, value>> /\ kp.handle_left[2] = value /\ kp.handle_right[2] = value

StartKeys == <<"start_x", "start_y", "start_z">>
EndKeys == <<"end_x", "end_y", "end_z">>

\* Once the keyframe block is done, every curve with array_index 0, 1 or 2
\* has its point 0 (if any) at frame 1.0 with the start value and its point
\* 1 (if any) at frame 300.0 with the end value, and the Sphere is at the
\* start position.
SphereKeyframesSet ==
    (PastKeyframes /\ SphereCurvesFound(bpy)) =>
        /\ bpy.objects["Sphere"].location =
              <<params["start_x"], params["start_y"], params["start_z"]>>
        /\ \A c \in 1..Len(SphereCurves(bpy)) :
              LET fc == SphereCurves(bpy)[c] IN
              fc.array_index \in 0..2 =>
                  /\ Len(fc.keyframe_points) >= 1 =>
                        PointAt(fc.keyframe_points[1], 1, params[StartKeys[fc.array_index + 1]])
                  /\ Len(fc.keyframe_points) >= 2 =>
                        PointAt(fc.keyframe_points[2], 300, params[EndKeys[fc.array_index + 1]])

\* The keyframe block adds and removes no curve and no keyframe point, and
\* leaves alone the curves of array_index 3 or more.
SphereKeyframesKept ==
    (Running("lens_flare", "keyframes") /\ SphereCurvesFound(bpy)) =>
        /\ Len(SphereCurves(bpy')) = Len(SphereCurves(bpy))
        /\ \A c \in 1..Len(SphereCurves(bpy)) :
              /\ SphereCurves(bpy')[c].array_index = SphereCurves(bpy)[c].array_index
              /\ Len(SphereCurves(bpy')[c].keyframe_points) =
                     Len(SphereCurves(bpy)[c].keyframe_points)
              /\ SphereCurves(bpy)[c].array_index > 2 =>
                     SphereCurves(bpy')[c] = SphereCurves(bpy)[c]

\* C14: when SphereAction exists and has X, Y and Z curves, after the
\* keyframe block and until the end of the script keyframe point 0 of each
\* is at frame 1.0 with the merged start_x/start_y/start_z and point 1 at
\* frame 300.0 with the merged end_x/end_y/end_z, whatever start_frame,
\* end_frame and length_multiplier are; a curve with fewer points has only
\* its existing points written (no point is added), and the Sphere's
\* location is [start_x, start_y, start_z].
C14_SphereKeyframes == []SphereKeyframesSet /\ [][SphereKeyframesKept]_vars

\* C14 witness: a run on X, Y and Z curves of two points each has completed
\* with end_frame 250 and the end point of X at frame 300.
C14_Witness ==
    /\ Completed /\ script = "lens_flare"
    /\ SphereCurvesFound(bpy)
    /\ params["end_frame"] = 250
    /\ Len(SphereCurves(bpy)) = 3
    /\ \A c \in 1..3 : SphereCurves(bpy)[c].array_index = c - 1
    /\ SphereCurves(bpy)[1].keyframe_points[1].co = <<1, 380>>
    /\ SphereCurves(bpy)[1].keyframe_points[2].co = <<300, -460>>
    /\ SphereCurves(bpy)[3].keyframe_points[2].handle_right = <<1, 321>>

(***************************************************************************)
(* C15: the order of writes and insertions of keyframe_color_socket,       *)
(* checked under SpecSocket.                                               *)
(***************************************************************************)
\* The color of a pair with its alpha, as the claim's normalized color.
Normalized(c) == IF Len(c) = 3 THEN <<c[1], c[2], c[3], 100>> ELSE c

\* C15: a call with n pairs makes 4*n insertions after those the socket
\* had; insertions 4k+1 .. 4k+4 are for indices 0..3 in that order, at the
\* frame of pair k+1, and capture the components of that pair's normalized
\* color (not those of an earlier or later pair); the socket's default_value
\* ends as the normalized color of the last pair and is unchanged when n = 0.
C15_InsertionsFollowWrites ==
    [][(ret = "pending" /\ ret' = "None") =>
          LET n == Len(keyframes)
              had == Len(bpy.socket.animation)
              made == bpy'.socket.animation
          IN  /\ Len(made) = had + 4 * n
              /\ SubSeq(made, 1, had) = bpy.socket.animation
              /\ \A k \in 1..n : \A idx \in 0..3 :
                    made[had + 4 * (k - 1) + idx + 1] =
                        [index |-> idx, frame |-> keyframes[k][1],
                         value |-> Normalized(keyframes[k][2])[idx + 1]]
              /\ bpy'.socket.default_value =
                    IF n = 0 THEN bpy.socket.default_value
                    ELSE Normalized(keyframes[n][2])]_vars

\* C15 witness: two pairs of different colors, an RGB one first, have been
\* keyframed at the frames 1 and 300 on a socket that had a keyframe.
C15_Witness ==
    /\ ret = "None"
    /\ "socket" \in DOMAIN bpy
    /\ Len(keyframes) = 2
    /\ keyframes[1] = <<1, <<100, 50, 0>>>>
    /\ keyframes[2] = <<300, <<0, 0, 0, 0>>>>
    /\ Len(bpy.socket.animation) = 9
    /\ bpy.socket.animation[5] = [index |-> 3, frame |-> 1, value |-> 100]
    /\ bpy.socket.default_value = <<0, 0, 0, 0>>

(***************************************************************************)
(* C16: _safe_rgba, checked under SpecSafe.                                *)
(***************************************************************************)
\* C16 (as claimed): _safe_rgba returns ensure_rgba of a sequence of 3 or
\* more components, [v, v, v, 1.0] for a number v and opaque white for any
\* other input, a shorter sequence included, and what it returns always has
\* exactly 4 components.
C16_AlwaysRgba ==
    cpc = "coerced" =>
        /\ Len(rgba) = 4
        /\ (color.kind = "sequence" /\ Len(color.items) >= 3) => rgba = ensure_rgba(color.items)
        /\ color.kind = "number" => rgba = <<color.number, color.number, color.number, 100>>
        /\ (color.kind \notin {"sequence", "number"} \/
            (color.kind = "sequence" /\ Len(color.items) < 3)) => rgba = WHITE

(***************************************************************************)
(* C17: the order of writes within one run, checked under Spec.            *)
(***************************************************************************)
\* The script has not reached its render options block.
BeforeRender ==
    pc \in {"merge", "scene", "keyframes", "material", "glare1", "glare2", "font", "glare"}

\* The script ended on a lookup in the host project that failed.
HostLookupFailed ==
    script \in Scripts /\ err \in {"KeyError(bpy)", "IndexError", "AttributeError", "RuntimeError"}

\* The render settings and the frame range are as the project had them.
RenderUntouched == bpy.render = EmptyHost.render /\ bpy.scene = EmptyHost.scene

\* The merge changes nothing in the host (so a run that stops on the JSON
\* text has changed nothing).
MergeBeforeMutation == pc = "merge" => bpy' = bpy

\* C17 (as claimed): the merge precedes the first host mutation, the render
\* settings and frame range are written only after the scene mutations, and
\* if any lookup in the host fails the render settings, frame_start and
\* frame_end are left unchanged.
C17_LookupFailureLeavesRender ==
    /\ []((script \in Scripts /\ BeforeRender) => RenderUntouched)
    /\ [](HostLookupFailed => RenderUntouched)
    /\ [][MergeBeforeMutation]_vars

\* The world lookup of spacemovie_intro.py failed, in its render options.
WorldLookupFailed == script = "spacemovie_intro" /\ pc = "render" /\ err = "IndexError"

\* What holds of the host at every point of a run.
WritesOrdered ==
    script \in Scripts =>
        /\ BeforeRender => RenderUntouched
        /\ (HostLookupFailed /\ ~WorldLookupFailed) => RenderUntouched
        /\ WorldLookupFailed =>
              /\ bpy.render.filepath = params["output_path"]
              /\ bpy.render.fps = params["fps"]
              /\ bpy.render.file_format = params["file_format"]
              /\ bpy.render.color_mode = params["color_mode"]
              /\ bpy.render.film_transparent = params["alpha_mode"]
              /\ bpy.render.resolution_x = EmptyHost.render.resolution_x
              /\ bpy.render.resolution_y = EmptyHost.render.resolution_y
              /\ bpy.render.resolution_percentage = EmptyHost.render.resolution_percentage
              /\ bpy.render.frame_map_new = EmptyHost.render.frame_map_new
              /\ bpy.scene = EmptyHost.scene
        /\ (script = "lens_flare" /\ pc \notin {"merge", "scene"}) =>
              bpy.objects["Sphere"].location =
                  <<params["start_x"], params["start_y"], params["start_z"]>>
        /\ (script = "spacemovie_intro" /\ pc = "scene" /\ err = "KeyError(bpy)"
              /\ "EpisodeTitle" \notin DOMAIN bpy.objects) =>
              /\ bpy.objects["Alongtimeago"].data.body = params["Alongtimeago"]
              /\ bpy.objects["Episode"].data.body = params["Episode"]
              /\ bpy.objects["MainText"].data.body = "Text"

\* The render options and animation speed blocks write render settings and
\* frame range only (and, in spacemovie_intro.py, the world color).
RenderBlocksKeepScene ==
    (script \in Scripts /\ pc \in {"render", "speed"}) =>
        /\ [bpy' EXCEPT !.render = bpy.render, !.scene = bpy.scene, !.worlds = bpy.worlds] = bpy
        /\ script # "spacemovie_intro" => bpy'.worlds = bpy.worlds

\* C17 (amended): the merge precedes the first host mutation; the render
\* settings and frame range are written only after the object location,
\* keyframes, text bodies, material and compositor node values, and the
\* blocks that write them change nothing else but, in spacemovie_intro.py,
\* the world color, which is written between film_transparent and
\* resolution_x.  A run that stops on the JSON text changes nothing; a run
\* that stops on a failed lookup leaves render settings, frame_start and
\* frame_end unchanged, except that a failed world lookup in
\* spacemovie_intro.py leaves filepath, fps, file_format, color_mode and
\* film_transparent written; the mutations made before a failure stay.
C17_WritesOrdered ==
    /\ []WritesOrdered
    /\ [][MergeBeforeMutation /\ RenderBlocksKeepScene]_vars

\* C17 witness: a spacemovie_intro run on a project without a world has
\* written the text bodies and the first render settings and stopped.
C17_Witness ==
    /\ WorldLookupFailed
    /\ bpy.objects["MainText"].data.body = params["MainText"]
    /\ bpy.render.filepath = params["output_path"]
    /\ bpy.render.fps = 30
    /\ bpy.scene.frame_end = 1

(***************************************************************************)
(* C18: running a script twice, checked under SpecTwice.                   *)
(***************************************************************************)
\* C18: when the lens_flare or spacemovie_intro script has run twice in a
\* row with the same injected parameters, the host project (object
\* location, keyframe points, text bodies, socket values, render settings,
\* frame range) is as the first run left it, whether the runs reached the
\* end of the script or stopped on the same exception.
C18_SecondRunChangesNothing ==
    (script \in {"lens_flare", "spacemovie_intro"} /\ runs = 2 /\ Ended) => bpy = once

\* C18 witness: lens_flare has completed twice on a project with the Sphere
\* and keyframes to write, and the first run had changed the project.
C18_Witness ==
    /\ script = "lens_flare" /\ runs = 2 /\ pc = "done"
    /\ SphereCurvesFound(bpy)
    /\ Len(SphereCurves(bpy)) = 3
    /\ once.objects["Sphere"].location = <<380, 413, 265>>
    /\ once.scene.frame_end = 250
    /\ bpy = once

====
